---- MODULE Spec2Model ----
(***************************************************************************)
(* State machine of ROOT's RBrowserData (gui/browserv7/src/RBrowserData.cxx):*)
(* path decomposition, cached path resolution, and the memoized             *)
(* list / sort / filter / page pipeline of ProcessBrowserRequest.           *)
(*                                                                          *)
(* A std::string is a sequence of atoms; the atom "/" is the separator      *)
(* character, every other atom is a slash-free fragment of a name.          *)
(* An element (shared_ptr<RElement>) is the tree node it stands for; NoElem *)
(* is the null pointer.  A pointer into fLastItems is the index of its slot.*)
(***************************************************************************)
EXTENDS Integers, Sequences, FiniteSets, TLC

VARIABLES
    tree,               \* the browsed hierarchy (external collaborator, never changed)
    fTopElement,        \* RBrowserData::fTopElement
    fWorkingPath,       \* RBrowserData::fWorkingPath
    fCache,             \* RBrowserData::fCache, a function path -> element
    fLastPath,          \* RBrowserData::fLastPath
    fLastElement,       \* RBrowserData::fLastElement
    fLastItems,         \* RBrowserData::fLastItems (owned items)
    fLastAllChilds,     \* RBrowserData::fLastAllChilds
    fLastSortedItems,   \* RBrowserData::fLastSortedItems (pointers = slots of fLastItems)
    fLastSortMethod,    \* RBrowserData::fLastSortMethod
    fLastSortReverse,   \* RBrowserData::fLastSortReverse
    last,               \* history: the last operation, its arguments, result and trace
    listN,              \* enumeration loop (lines 134-138): children of the container
    listPos,            \* enumeration loop: children already visited by Next()
    listSize,           \* enumeration loop: fLastItems.size()
    listId,             \* enumeration loop: the local counter id
    listAll,            \* enumeration loop: fLastAllChilds
    listPc              \* enumeration loop: "test" | "done"

memo == <<fLastPath, fLastElement, fLastItems, fLastAllChilds,
          fLastSortedItems, fLastSortMethod, fLastSortReverse>>
loopVars == <<listN, listPos, listSize, listId, listAll, listPc>>
vars == <<tree, fTopElement, fWorkingPath, fCache, memo, last, loopVars>>

----------------------------------------------------------------------------
(* Bounds of the model *)

\* longest child list of the drawn one-level trees of SpecPage
MaxKids == 4
\* request.first ranges over -1 .. MaxFirst
MaxFirst == 2
\* request.number ranges over -1 .. MaxNumber
MaxNumber == 2
\* the enumeration loop of SpecList is run on containers of up to
\* kChildsLimit + 2 + MaxOver children
MaxOver == 1
\* the path strings of SpecPath have up to MaxLen characters (atoms)
MaxLen == 5

\* the literal of "if (id++ > 10000)"
kChildsLimit == 10000

NoElem == -1
Slash == "/"

----------------------------------------------------------------------------
(* Generic helpers *)

Min(a, b) == IF a < b THEN a ELSE b
Max(a, b) == IF a > b THEN a ELSE b

Reverse(s) == [i \in 1..Len(s) |-> s[Len(s) + 1 - i]]

\* std::vector::resize(n) on a path
Resize(s, n) == SubSeq(s, 1, n)

\* sequences over S of length <= n
SeqUpTo(S, n) == UNION {[1..k -> S] : k \in 0..n}

IsInjective(s) == \A i, j \in 1..Len(s) : s[i] = s[j] => i = j

----------------------------------------------------------------------------
(* Strings: operator< of std::string and of std::vector<std::string> *)

\* the atoms in ascending order of std::string::compare
AtomOrder == <<".git", ".h", "/", "a.txt", "b.txt", "lib", "src">>

AtomRank(a) == CHOOSE i \in 1..Len(AtomOrder) : AtomOrder[i] = a

\* lexicographic s < t for sequences ranked by rank(_)
RECURSIVE LexLess(_, _, _)
LexLess(s, t, rankOf) ==
    IF t = <<>> THEN FALSE
    ELSE IF s = <<>> THEN TRUE
    ELSE IF s[1] = t[1] THEN LexLess(Tail(s), Tail(t), rankOf)
    ELSE rankOf[s[1]] < rankOf[t[1]]

AtomRankOf == [a \in {AtomOrder[i] : i \in 1..Len(AtomOrder)} |-> AtomRank(a)]

\* std::string operator<
StrLess(s, t) == LexLess(s, t, AtomRankOf)

\* std::vector<std::string> operator<  (the key order of the cache)
RECURSIVE PathLess(_, _)
PathLess(p, q) ==
    IF q = <<>> THEN FALSE
    ELSE IF p = <<>> THEN TRUE
    ELSE IF p[1] = q[1] THEN PathLess(Tail(p), Tail(q))
    ELSE StrLess(p[1], q[1])

\* the elements of the finite set S of paths in ascending order
RECURSIVE SortedPaths(_)
SortedPaths(S) ==
    IF S = {} THEN <<>>
    ELSE LET m == CHOOSE p \in S : \A q \in S \ {p} : PathLess(p, q)
         IN  <<m>> \o SortedPaths(S \ {m})

----------------------------------------------------------------------------
(* The browsed hierarchy: RElement / RLevelIter / RItem, seen through the   *)
(* calls RBrowserData makes on them.  A node is a record                    *)
(*   name   : its name (a string)                                           *)
(*   kids   : its children, in the order the level iterator visits them     *)
(*   folder : RItem::IsFolder()   hidden : RItem::IsHidden()                *)
(*   iter   : GetChildsIter() returns an iterator (false: nullptr)          *)
(*   elem   : RLevelIter::GetElement() on this child returns an element     *)

Node(nm, ks, fo, hi, it, el) ==
    [name |-> nm, kids |-> ks, folder |-> fo, hidden |-> hi, iter |-> it, elem |-> el]

\* /            : .git (hidden folder), src (folder), a.txt,
\*                b.txt (a child whose GetElement() gives nullptr)
\* /src         : a.txt, lib (folder), .h (hidden file)
\* /src/lib     : a.txt (a container without children)
\* a.txt and /src/a.txt give no child iterator
SessionTree ==
    [n \in 0..8 |->
        CASE n = 0 -> Node(<<>>,        <<1, 2, 3, 4>>, TRUE,  FALSE, TRUE,  TRUE)
          [] n = 1 -> Node(<<".git">>,  <<>>,           TRUE,  TRUE,  TRUE,  TRUE)
          [] n = 2 -> Node(<<"src">>,   <<6, 5, 7>>,    TRUE,  FALSE, TRUE,  TRUE)
          [] n = 3 -> Node(<<"a.txt">>, <<>>,           FALSE, FALSE, FALSE, TRUE)
          [] n = 4 -> Node(<<"b.txt">>, <<>>,           FALSE, FALSE, FALSE, FALSE)
          [] n = 5 -> Node(<<"lib">>,   <<8>>,          TRUE,  FALSE, TRUE,  TRUE)
          [] n = 6 -> Node(<<"a.txt">>, <<>>,           FALSE, FALSE, FALSE, TRUE)
          [] n = 7 -> Node(<<".h">>,    <<>>,           FALSE, TRUE,  FALSE, TRUE)
          [] n = 8 -> Node(<<"a.txt">>, <<>>,           TRUE,  FALSE, TRUE,  TRUE)]

\* RElement::GetChildsIter(): the children the iterator will visit, or "none"
HasChildsIter(t, e) == t[e].iter

\* RLevelIter::Find(name): the first child, in iteration order, named name (0: none)
IterFind(t, e, name) ==
    LET ks == t[e].kids
        hits == {i \in 1..Len(ks) : t[ks[i]].name = name}
    IN  IF hits = {} THEN 0
        ELSE ks[CHOOSE i \in hits : \A j \in hits : i <= j]

\* RLevelIter::GetElement() on the child the iterator stands on
IterGetElement(t, kid) == IF t[kid].elem THEN kid ELSE NoElem

\* RLevelIter::CreateItem(): the display snapshot of a child
CreateItem(t, kid) ==
    [name |-> t[kid].name, folder |-> t[kid].folder, hidden |-> t[kid].hidden]

----------------------------------------------------------------------------
(* RBrowserData::DecomposePath *)

npos == -1

\* std::string::find(ch, from), positions counted from 0
StrFind(s, ch, from) ==
    LET hits == {i \in from..(Len(s) - 1) : s[i + 1] = ch}
    IN  IF hits = {} THEN npos ELSE CHOOSE i \in hits : \A j \in hits : i <= j

\* std::string::substr(pos, n)
Substr(s, pos, n) == SubSeq(s, pos + 1, Min(pos + n, Len(s)))

\* a slip: >= for > in the test of line 92, which then keeps empty segments
RECURSIVE DecomposeLoopKeepsEmpty(_, _, _, _)
DecomposeLoopKeepsEmpty(strpath, arr, previous, current) ==
    IF current # npos
    THEN LET arr1 == IF current >= previous
                     THEN Append(arr, Substr(strpath, previous, current - previous))
                     ELSE arr
         IN  DecomposeLoopKeepsEmpty(strpath, arr1, current + 1,
                                     StrFind(strpath, Slash, current + 1))
    ELSE IF previous < Len(strpath)
         THEN Append(arr, Substr(strpath, previous, Len(strpath) - previous))
         ELSE arr

\* the while loop of lines 91-96 and the tail of lines 98-101
RECURSIVE DecomposeLoop(_, _, _, _)
DecomposeLoop(strpath, arr, previous, current) ==
    IF current # npos
    THEN LET arr1 == IF current > previous
                     THEN Append(arr, Substr(strpath, previous, current - previous))
                     ELSE arr
         IN  DecomposeLoop(strpath, arr1, current + 1, StrFind(strpath, Slash, current + 1))
    ELSE IF previous < Len(strpath)
         THEN Append(arr, Substr(strpath, previous, Len(strpath) - previous))
         ELSE arr

DecomposePath(strpath, relative_to_work_element, workingPath) ==
    LET arr == IF relative_to_work_element THEN workingPath ELSE <<>>
    IN  IF strpath = <<>> THEN arr
        ELSE LET previous == IF strpath[1] = Slash THEN 1 ELSE 0
             IN  DecomposeLoop(strpath, arr, previous, StrFind(strpath, Slash, previous))

----------------------------------------------------------------------------
(* RBrowserData::GetSubElement *)

\* RElement::ComparePaths: the count of leading components on which the two agree
ComparePaths(path1, path2) ==
    LET sz == Min(Len(path1), Len(path2))
        diff == {n \in 1..sz : path1[n] # path2[n]}
    IN  IF diff = {} THEN sz ELSE (CHOOSE n \in diff : \A m \in diff : n <= m) - 1

EmptyCache == [p \in {} |-> NoElem]

\* fCache[subpath] = elem
CachePut(cache, subpath, elem) ==
    [p \in (DOMAIN cache) \cup {subpath} |-> IF p = subpath THEN elem ELSE cache[p]]

\* range-for over fCache.  fCache is indexed by fCache[subpath] (line 261), so
\* it is a std::map keyed by RElementPath_t, and the loop visits its keys in
\* ascending operator< order
CacheKeys(cache) == SortedPaths(DOMAIN cache)

\* a slip: >= lets a later entry of the same match length replace the cursor
ScanEntryLastWins(path, cache, key, cur) ==
    LET comp == ComparePaths(path, key)
    IN  IF comp >= cur.pos /\ comp > 0 THEN [pos |-> comp, elem |-> cache[key]] ELSE cur

\* one pass of the body of the scan (line 246-247) over entry key
ScanEntry(path, cache, key, cur) ==
    LET comp == ComparePaths(path, key)
    IN  IF comp > cur.pos THEN [pos |-> comp, elem |-> cache[key]] ELSE cur

\* a slip: the entries are visited from the last key to the first
RECURSIVE ScanCacheBackwards(_, _, _, _)
ScanCacheBackwards(path, cache, keys, cur) ==
    IF keys = <<>> THEN cur
    ELSE ScanCacheBackwards(path, cache, SubSeq(keys, 1, Len(keys) - 1),
                            ScanEntry(path, cache, keys[Len(keys)], cur))

\* lines 242-248: the best entry of the cache, starting from the top element
RECURSIVE ScanCache(_, _, _, _)
ScanCache(path, cache, keys, cur) ==
    IF keys = <<>> THEN cur
    ELSE ScanCache(path, cache, Tail(keys), ScanEntry(path, cache, Head(keys), cur))

\* lines 250-264: [elem, cache] after walking path from position pos
RECURSIVE WalkPath(_, _, _, _, _)

\* a slip: subpath.resize(pos), the key of the element the walk came from
WalkIntoParentKey(t, path, pos, e, cache) ==
    IF e = NoElem THEN [elem |-> NoElem, cache |-> cache]
    ELSE WalkPath(t, path, pos + 1, e, CachePut(cache, Resize(path, pos), e))

\* lines 254-263, with e what iter->GetElement() gave
WalkInto(t, path, pos, e, cache) ==
    IF e = NoElem THEN [elem |-> NoElem, cache |-> cache]
    ELSE WalkPath(t, path, pos + 1, e, CachePut(cache, Resize(path, pos + 1), e))

\* lines 252-253, with kid the child iter->Find(path[pos]) stands on (0: not found)
WalkFound(t, path, pos, kid, cache) ==
    IF kid = 0 THEN [elem |-> NoElem, cache |-> cache]
    ELSE WalkInto(t, path, pos, IterGetElement(t, kid), cache)

WalkPath(t, path, pos, elem, cache) ==
    IF pos < Len(path)
    THEN IF ~HasChildsIter(t, elem) THEN [elem |-> NoElem, cache |-> cache]
         ELSE WalkFound(t, path, pos, IterFind(t, elem, path[pos + 1]), cache)
    ELSE [elem |-> elem, cache |-> cache]

\* line 250 on, from the cursor the scan chose
WalkFrom(t, path, best, cache) == WalkPath(t, path, best.pos, best.elem, cache)

GetSubElement(t, top, cache, path) ==
    IF path = <<>> THEN [elem |-> top, cache |-> cache]
    ELSE WalkFrom(t, path,
                  ScanCache(path, cache, CacheKeys(cache), [pos |-> 0, elem |-> top]), cache)

\* the node path denotes from node e by child-name lookup alone (no cache)
RECURSIVE Follow(_, _, _)
Follow(t, e, path) ==
    IF path = <<>> THEN e
    ELSE IF ~HasChildsIter(t, e) THEN NoElem
    ELSE LET kid == IterFind(t, e, Head(path))
         IN  IF kid = 0 \/ IterGetElement(t, kid) = NoElem THEN NoElem
             ELSE Follow(t, kid, Tail(path))

----------------------------------------------------------------------------
(* The memo of the last request, as one record *)

Memo(pa, el, it, al, so, me, re) ==
    [path |-> pa, elem |-> el, items |-> it, all |-> al,
     sorted |-> so, method |-> me, reverse |-> re]

\* a slip: fLastSortedItems.clear() left out
ResetLastRequestKeepsSorted(m) == Memo(<<>>, NoElem, <<>>, FALSE, m.sorted, "", m.reverse)

\* RBrowserData::ResetLastRequest: fLastSortReverse is not among the fields it resets
ResetLastRequest(m) == Memo(<<>>, NoElem, <<>>, FALSE, <<>>, "", m.reverse)

----------------------------------------------------------------------------
(* The enumeration loop of ProcessBrowserRequest, lines 131-138 *)

\* the loop's state before the first test: id = 0, fLastAllChilds = true
ListStart == [pos |-> 0, size |-> 0, id |-> 0, all |-> TRUE, done |-> FALSE]

\* one evaluation of "iter->Next() && fLastAllChilds" and, when it is true, of the
\* body: emplace_back, then "if (id++ > 10000) fLastAllChilds = false"
ListStep(st, n) ==
    IF st.pos < n
    THEN IF st.all
         THEN [pos |-> st.pos + 1, size |-> st.size + 1, id |-> st.id + 1,
               all |-> ~(st.id > kChildsLimit), done |-> FALSE]
         ELSE [st EXCEPT !.pos = st.pos + 1, !.done = TRUE]
    ELSE [st EXCEPT !.done = TRUE]

RECURSIVE ListRun(_, _)
ListRun(st, n) == IF st.done THEN st ELSE ListRun(ListStep(st, n), n)

----------------------------------------------------------------------------
(* The sort block of ProcessBrowserRequest, lines 148-172 *)

\* a slip: the two loops in the other order
FoldersDown(items) ==
    SelectSeq([i \in 1..Len(items) |-> i], LAMBDA i : ~items[i].folder)
    \o SelectSeq([i \in 1..Len(items) |-> i], LAMBDA i : items[i].folder)

\* lines 152-157: the slots of the folders, then the slots of the others
FoldersUp(items) ==
    SelectSeq([i \in 1..Len(items) |-> i], LAMBDA i : items[i].folder)
    \o SelectSeq([i \in 1..Len(items) |-> i], LAMBDA i : ~items[i].folder)

\* RItem::Compare(b, method): the comparator the items supply for a sort key
Compare(a, b, method) == StrLess(a.name, b.name)

\* std::sort of the slots with that comparator
StdSort(items, ptrs, method) ==
    CHOOSE q \in [1..Len(ptrs) -> {ptrs[i] : i \in 1..Len(ptrs)}] :
        /\ IsInjective(q)
        /\ \A i, j \in 1..Len(q) : i < j => ~Compare(items[q[j]], items[q[i]], method)

\* a slip: every non-empty sort key, "unsorted" too, reaches std::sort
OrderItemsAlwaysSort(items, sort) ==
    IF sort = "" THEN FoldersUp(items)
    ELSE StdSort(items, [i \in 1..Len(items) |-> i], sort)

\* lines 150-166
OrderItems(items, sort) ==
    IF sort = "" THEN FoldersUp(items)
    ELSE LET copy == [i \in 1..Len(items) |-> i]
         IN  IF sort # "unsorted" THEN StdSort(items, copy, sort) ELSE copy

\* a slip: std::reverse(begin(), end() - 1), which leaves the last pointer in place
ApplyReverseButLast(ptrs, reverse) ==
    IF reverse /\ ptrs # <<>>
    THEN Reverse(SubSeq(ptrs, 1, Len(ptrs) - 1)) \o <<ptrs[Len(ptrs)]>>
    ELSE ptrs

\* lines 168-169
ApplyReverse(ptrs, reverse) == IF reverse THEN Reverse(ptrs) ELSE ptrs

\* a slip: == for != in the test of the reverse flag
NeedSortSameReverse(m, req) ==
    \/ Len(m.sorted) # Len(m.items)
    \/ m.method # req.sort
    \/ m.reverse = req.reverse

\* the condition of lines 145-147
NeedSort(m, req) ==
    \/ Len(m.sorted) # Len(m.items)
    \/ m.method # req.sort
    \/ m.reverse # req.reverse

----------------------------------------------------------------------------
(* The regular expressions of the requests: what std::regex makes of them *)

\* a pattern std::regex refuses with std::regex_error
BadRegex == "("

\* the names std::regex_match accepts in full, per pattern
RegexLang(re) ==
    CASE re = ""         -> {<<>>}
      [] re = "a\\.txt"  -> {<<"a.txt">>}
      [] re = ".*txt"    -> {<<"a.txt">>, <<"b.txt">>}
      [] OTHER           -> {}

RegexValid(re) == re # BadRegex

RegexMatch(name, re) == name \in RegexLang(re)

----------------------------------------------------------------------------
(* The filter and page loop of ProcessBrowserRequest, lines 177-194 *)

\* line 181
SkipHidden(item, req) == ~req.hidden /\ item.hidden

\* a slip: the regex is applied to folders too
SkipRegexFolders(item, req) ==
    req.regex # "" /\ ~RegexMatch(item.name, req.regex)

\* line 184
SkipRegex(item, req) ==
    req.regex # "" /\ ~item.folder /\ ~RegexMatch(item.name, req.regex)

\* a slip: the window's upper end is taken inclusive
InWindowInclusive(id, req) ==
    (id >= req.first) /\ ((req.number = 0) \/ (id <= req.first + req.number))

\* line 187
InWindow(id, req) ==
    (id >= req.first) /\ ((req.number = 0) \/ (id < req.first + req.number))

\* the loop over fLastSortedItems from position i, with the counter id
RECURSIVE PageLoop(_, _, _, _, _, _)
PageLoop(items, sorted, req, i, id, nodes) ==
    IF i > Len(sorted) THEN [nodes |-> nodes, id |-> id]
    ELSE LET item == items[sorted[i]]
         IN  IF SkipHidden(item, req) \/ SkipRegex(item, req)
             THEN PageLoop(items, sorted, req, i + 1, id, nodes)
             ELSE PageLoop(items, sorted, req, i + 1, id + 1,
                           IF InWindow(id, req) THEN Append(nodes, sorted[i]) ELSE nodes)

----------------------------------------------------------------------------
(* RBrowserData::ProcessBrowserRequest and RBrowserData::ProcessRequest *)

Request(pa, so, rv, hi, rx, fi, nu) ==
    [path |-> pa, sort |-> so, reverse |-> rv, hidden |-> hi, regex |-> rx,
     first |-> fi, number |-> nu]

\* lines 204-208: the reply ProcessRequest hands to ProcessBrowserRequest
NewReply(req) == [path |-> req.path, first |-> 0, nchilds |-> 0, nodes |-> <<>>]

\* a slip: ResetLastRequest() called before GetSubElement(path)
ResolvedResetFirst(m, path, r) ==
    IF r.elem = NoElem
    THEN [ok |-> FALSE, m |-> ResetLastRequest(m), cache |-> r.cache, resolved |-> TRUE,
          path |-> path]
    ELSE [ok |-> TRUE, m |-> [ResetLastRequest(m) EXCEPT !.path = path, !.elem = r.elem],
          cache |-> r.cache, resolved |-> TRUE, path |-> path]

\* lines 116-122, with r what GetSubElement(path) gave: [ok, m, cache, resolved, path]
Resolved(m, path, r) ==
    IF r.elem = NoElem
    THEN [ok |-> FALSE, m |-> m, cache |-> r.cache, resolved |-> TRUE, path |-> path]
    ELSE [ok |-> TRUE, m |-> [ResetLastRequest(m) EXCEPT !.path = path, !.elem = r.elem],
          cache |-> r.cache, resolved |-> TRUE, path |-> path]

\* lines 114-123, with path the decomposed request path
ResolveIfNew(t, top, m, cache, path) ==
    IF (path # m.path) \/ (m.elem = NoElem)
    THEN Resolved(m, path, GetSubElement(t, top, cache, path))
    ELSE [ok |-> TRUE, m |-> m, cache |-> cache, resolved |-> FALSE, path |-> path]

\* lines 112-123
ResolveStage(t, top, wp, m, cache, req) ==
    ResolveIfNew(t, top, m, cache, DecomposePath(req.path, TRUE, wp))

\* lines 135 and 140-141, with st the enumeration loop's final state
Listed(t, m, st) ==
    [m EXCEPT !.items = [i \in 1..st.size |-> CreateItem(t, t[m.elem].kids[i])],
              !.all = st.all, !.sorted = <<>>, !.method = ""]

\* lines 126-142: [ok, m, listed]
ListStage(t, m) ==
    IF m.items = <<>>
    THEN IF ~HasChildsIter(t, m.elem) THEN [ok |-> FALSE, m |-> m, listed |-> FALSE]
         ELSE [ok |-> TRUE, m |-> Listed(t, m, ListRun(ListStart, Len(t[m.elem].kids))),
               listed |-> TRUE]
    ELSE [ok |-> TRUE, m |-> m, listed |-> FALSE]

\* lines 145-173: [m, sorted]
SortStage(m, req) ==
    IF NeedSort(m, req)
    THEN [m |-> [m EXCEPT !.sorted = ApplyReverse(OrderItems(m.items, req.sort), req.reverse),
                          !.method = req.sort, !.reverse = req.reverse],
          sorted |-> TRUE]
    ELSE [m |-> m, sorted |-> FALSE]

\* a slip: the size of the page is reported as the total
FillReplyPageSize(req, reply, r) ==
    [reply EXCEPT !.nodes = r.nodes, !.first = req.first, !.nchilds = Len(r.nodes)]

\* lines 193-194, with r what the loop of lines 177-191 gave
FillReply(req, reply, r) ==
    [reply EXCEPT !.nodes = r.nodes, !.first = req.first, !.nchilds = r.id]

\* lines 175-196: the regex is compiled, then the page is filled
PageStage(m, req, reply) ==
    IF ~RegexValid(req.regex) THEN [ret |-> "throw", reply |-> reply]
    ELSE [ret |-> "true",
          reply |-> FillReply(req, reply, PageLoop(m.items, m.sorted, req, 1, 0, reply.nodes))]

\* what a call leaves: the memo, the cache, ret ("true" or "false": the value
\* returned; "throw": std::regex_error left the function), the reply, the
\* decomposed path, and which stages ran
Outcome(rs, m, ret, reply, listed, sorted) ==
    [m |-> m, cache |-> rs.cache, ret |-> ret, reply |-> reply, path |-> rs.path,
     resolved |-> rs.resolved, listed |-> listed, sorted |-> sorted]

\* line 175 on, after the sort block ended as ss
Paged(rs, ls, ss, pg) == Outcome(rs, ss.m, pg.ret, pg.reply, ls.listed, ss.sorted)

AfterSort(rs, ls, ss, req, reply) == Paged(rs, ls, ss, PageStage(ss.m, req, reply))

\* a slip: an element without child iterator is answered as an empty listing
AfterListEmptyReply(req, reply, rs, ls) ==
    IF ~ls.ok
    THEN Outcome(rs, ls.m, "true", [reply EXCEPT !.first = req.first], FALSE, FALSE)
    ELSE AfterSort(rs, ls, SortStage(ls.m, req), req, reply)

\* line 145 on, after the listing block ended as ls
AfterList(req, reply, rs, ls) ==
    IF ~ls.ok THEN Outcome(rs, ls.m, "false", reply, FALSE, FALSE)
    ELSE AfterSort(rs, ls, SortStage(ls.m, req), req, reply)

\* line 126 on, after the resolution block ended as rs
AfterResolve(t, req, reply, rs) ==
    IF ~rs.ok THEN Outcome(rs, rs.m, "false", reply, FALSE, FALSE)
    ELSE AfterList(req, reply, rs, ListStage(t, rs.m))

ProcessBrowserRequest(t, top, wp, m, cache, req, reply) ==
    AfterResolve(t, req, reply, ResolveStage(t, top, wp, m, cache, req))

----------------------------------------------------------------------------
(* State *)

CurMemo == Memo(fLastPath, fLastElement, fLastItems, fLastAllChilds,
                fLastSortedItems, fLastSortMethod, fLastSortReverse)

SetMemo(m) ==
    /\ fLastPath' = m.path
    /\ fLastElement' = m.elem
    /\ fLastItems' = m.items
    /\ fLastAllChilds' = m.all
    /\ fLastSortedItems' = m.sorted
    /\ fLastSortMethod' = m.method
    /\ fLastSortReverse' = m.reverse

NoRequest == Request(<<>>, "", FALSE, FALSE, "", 0, 0)

\* the record of an operation: op, its request and decomposed path, what it
\* returned, the reply, and which stages ran
Last(op, req, path, ret, reply, elem, re, li, so) ==
    [op |-> op, req |-> req, path |-> path, ret |-> ret, reply |-> reply, elem |-> elem,
     resolved |-> re, listed |-> li, sorted |-> so]

NoLast(op) == Last(op, NoRequest, <<>>, "none", NewReply(NoRequest), NoElem, FALSE, FALSE, FALSE)

LoopIdle ==
    /\ listN = 0 /\ listPos = 0 /\ listSize = 0 /\ listId = 0
    /\ listAll = FALSE /\ listPc = "idle"

\* a new RBrowserData: null top element, empty paths, cache and memo;
\* fLastSortReverse has whatever value its declaration gives it
InitData ==
    /\ fTopElement = NoElem
    /\ fWorkingPath = <<>>
    /\ fCache = EmptyCache
    /\ fLastPath = <<>>
    /\ fLastElement = NoElem
    /\ fLastItems = <<>>
    /\ fLastAllChilds = FALSE
    /\ fLastSortedItems = <<>>
    /\ fLastSortMethod = ""
    /\ fLastSortReverse \in BOOLEAN
    /\ last = NoLast("new")

----------------------------------------------------------------------------
(* Operations *)

\* RBrowserData::SetWorkingPath
DoSetWorkingPath(path) ==
    /\ fWorkingPath' = path
    /\ SetMemo(ResetLastRequest(CurMemo))

\* RBrowserData::SetWorkingDirectory
DoSetWorkingDirectory(strpath) == DoSetWorkingPath(DecomposePath(strpath, FALSE, fWorkingPath))

\* RBrowserData::SetTopElement
DoSetTopElement(elem) ==
    /\ fTopElement' = elem
    /\ DoSetWorkingDirectory(<<>>)

\* the state once ProcessBrowserRequest(req) ended as r
AfterRequest(req, r) ==
    /\ SetMemo(r.m)
    /\ fCache' = r.cache
    /\ last' = Last("request", req, r.path, r.ret, r.reply, r.m.elem,
                    r.resolved, r.listed, r.sorted)

\* RBrowserData::ProcessRequest with request req
DoProcessRequest(req) ==
    AfterRequest(req, ProcessBrowserRequest(tree, fTopElement, fWorkingPath, CurMemo, fCache,
                                            req, NewReply(req)))

\* the state once GetSubElement(path) ended as r
AfterGetElement(str, path, r) ==
    /\ fCache' = r.cache
    /\ last' = [NoLast("getelement") EXCEPT !.path = path, !.elem = r.elem,
                                            !.req.path = str, !.resolved = TRUE]

\* GetSubElement on the decomposed path
GetElementAt(str, path) ==
    AfterGetElement(str, path, GetSubElement(tree, fTopElement, fCache, path))

\* RBrowserData::GetElement
DoGetElement(str) == GetElementAt(str, DecomposePath(str, TRUE, fWorkingPath))

----------------------------------------------------------------------------
(* Inputs of the session specification *)

SortKeys == {"", "unsorted", "name"}

\* "", "/src", "lib//", "a.txt", "b.txt": each is resolved from the working path
SessionPaths ==
    { <<>>, <<"/", "src">>, <<"lib", "/", "/">>, <<"a.txt">>, <<"b.txt">> }

\* "", "src", "/src/lib"
SessionDirs == { <<>>, <<"src">>, <<"/", "src", "/", "lib">> }

\* the top element of the session: the root of the hierarchy
SessionTops == {0}

SessionSorts == {"", "unsorted"}

\* requests for two windows, and requests with a malformed regex
SessionRequests ==
    { Request(pa, so, rv, FALSE, rx[1], rx[2], rx[3]) :
        pa \in SessionPaths, so \in SessionSorts, rv \in BOOLEAN,
        rx \in {<<"", 0, 0>>, <<"", 1, 1>>, <<BadRegex, 0, 0>>} }

----------------------------------------------------------------------------
(* The session: any sequence of calls on one RBrowserData over SessionTree. *)
(* Calls that dereference the top element wait until one is set.            *)

Init ==
    /\ tree = SessionTree
    /\ InitData
    /\ LoopIdle

SetTopElement ==
    \E elem \in SessionTops :
        /\ DoSetTopElement(elem)
        /\ last' = [NoLast("settop") EXCEPT !.elem = elem]
        /\ UNCHANGED <<tree, fCache, loopVars>>

SetWorkingDirectory ==
    \E strpath \in SessionDirs :
        /\ DoSetWorkingDirectory(strpath)
        /\ last' = [NoLast("setwd") EXCEPT !.req.path = strpath]
        /\ UNCHANGED <<tree, fTopElement, fCache, loopVars>>

ProcessRequest ==
    /\ fTopElement # NoElem
    /\ \E req \in SessionRequests : DoProcessRequest(req)
    /\ UNCHANGED <<tree, fTopElement, fWorkingPath, loopVars>>

GetElement ==
    /\ fTopElement # NoElem
    /\ \E str \in SessionPaths : DoGetElement(str)
    /\ UNCHANGED <<tree, fTopElement, fWorkingPath, memo, loopVars>>

Next == SetTopElement \/ SetWorkingDirectory \/ ProcessRequest \/ GetElement

Spec == Init /\ [][Next]_vars

----------------------------------------------------------------------------
(* One request on a fresh RBrowserData whose top element has any child list *)

\* the kinds of children: .git (hidden folder), src (folder), a.txt, b.txt, .h (hidden)
ItemKinds ==
    { Node(<<".git">>, <<>>, TRUE, TRUE, TRUE, TRUE),
      Node(<<"src">>, <<>>, TRUE, FALSE, TRUE, TRUE),
      Node(<<"a.txt">>, <<>>, FALSE, FALSE, FALSE, TRUE),
      Node(<<"b.txt">>, <<>>, FALSE, FALSE, FALSE, TRUE),
      Node(<<".h">>, <<>>, FALSE, TRUE, FALSE, TRUE) }

\* the hierarchy of one container, node 0, whose children are ks
FlatTree(ks) ==
    [n \in 0..Len(ks) |->
        IF n = 0 THEN Node(<<>>, [i \in 1..Len(ks) |-> i], TRUE, FALSE, TRUE, TRUE)
        ELSE ks[n]]

\* siblings have distinct names
FlatTrees == {FlatTree(ks) : ks \in {q \in SeqUpTo(ItemKinds, MaxKids) : IsInjective(q)}}

PageRequests ==
    { Request(<<>>, so, rv, hi, rx, fi, nu) :
        so \in SortKeys, rv \in BOOLEAN, hi \in BOOLEAN,
        rx \in {"", "a\\.txt", BadRegex}, fi \in (-1)..MaxFirst, nu \in (-1)..MaxNumber }

InitPage ==
    /\ tree \in FlatTrees
    /\ InitData
    /\ fLastSortReverse = FALSE
    /\ LoopIdle

PageSetTop ==
    /\ fTopElement = NoElem
    /\ DoSetTopElement(0)
    /\ last' = [NoLast("settop") EXCEPT !.elem = 0]
    /\ UNCHANGED <<tree, fCache, loopVars>>

PageRequest ==
    /\ last.op = "settop"
    /\ \E req \in PageRequests : DoProcessRequest(req)
    /\ UNCHANGED <<tree, fTopElement, fWorkingPath, loopVars>>

NextPage == PageSetTop \/ PageRequest

SpecPage == InitPage /\ [][NextPage]_vars

----------------------------------------------------------------------------
(* The enumeration loop alone, one test of its condition per step, on a     *)
(* container of listN children                                              *)

ListSizes == {0, 1} \cup ((kChildsLimit - 1)..(kChildsLimit + 2 + MaxOver))

InitList ==
    /\ tree = FlatTree(<<>>)
    /\ InitData
    /\ fLastSortReverse = FALSE
    /\ listN \in ListSizes
    /\ listPos = ListStart.pos
    /\ listSize = ListStart.size
    /\ listId = ListStart.id
    /\ listAll = ListStart.all
    /\ listPc = "test"

ListIter ==
    /\ listPc = "test"
    /\ LET st == ListStep([pos |-> listPos, size |-> listSize, id |-> listId,
                           all |-> listAll, done |-> FALSE], listN)
       IN  /\ listPos' = st.pos
           /\ listSize' = st.size
           /\ listId' = st.id
           /\ listAll' = st.all
           /\ listPc' = IF st.done THEN "done" ELSE "test"
    /\ UNCHANGED <<tree, fTopElement, fWorkingPath, fCache, memo, last, listN>>

NextList == ListIter

SpecList == InitList /\ [][NextList]_vars

----------------------------------------------------------------------------
(* Path decomposition: on an RBrowserData whose top element is set, one     *)
(* SetWorkingDirectory and one GetElement, each with any string of up to    *)
(* MaxLen characters                                                        *)

\* the characters of the strings: the separator and two name fragments
PathAtoms == {Slash, "src", "lib"}

PathStrings == SeqUpTo(PathAtoms, MaxLen)

InitPath ==
    /\ tree = SessionTree
    /\ InitData
    /\ fLastSortReverse = FALSE
    /\ LoopIdle

PathSetTop ==
    /\ fTopElement = NoElem
    /\ DoSetTopElement(0)
    /\ last' = [NoLast("settop") EXCEPT !.elem = 0]
    /\ UNCHANGED <<tree, fCache, loopVars>>

PathSetWorkingDirectory ==
    /\ last.op = "settop"
    /\ \E strpath \in PathStrings :
          /\ DoSetWorkingDirectory(strpath)
          /\ last' = [NoLast("setwd") EXCEPT !.req.path = strpath]
    /\ UNCHANGED <<tree, fTopElement, fCache, loopVars>>

PathGetElement ==
    /\ last.op \in {"settop", "setwd"}
    /\ \E str \in PathStrings : DoGetElement(str)
    /\ UNCHANGED <<tree, fTopElement, fWorkingPath, memo, loopVars>>

NextPath == PathSetTop \/ PathSetWorkingDirectory \/ PathGetElement

SpecPath == InitPath /\ [][NextPath]_vars

----------------------------------------------------------------------------
(* The session with a top element that is replaced: SetTopElement is called *)
(* with the root of the hierarchy or with its folder src, between any calls *)
(* of the other operations.                                                 *)

\* the root, and the folder src
TopElements == {0, 2}

\* "", "src"
TopDirs == { <<>>, <<"src">> }

\* "src", "lib", "a.txt", "b.txt", "src/lib"
TopPaths == { <<"src">>, <<"lib">>, <<"a.txt">>, <<"b.txt">>, <<"src", "/", "lib">> }

TopRequests ==
    { Request(pa, so, rv, FALSE, "", 0, 0) :
        pa \in TopPaths \cup {<<>>}, so \in SessionSorts, rv \in BOOLEAN }

TopSetTopElement ==
    \E elem \in TopElements :
        /\ DoSetTopElement(elem)
        /\ last' = [NoLast("settop") EXCEPT !.elem = elem]
        /\ UNCHANGED <<tree, fCache, loopVars>>

TopSetWorkingDirectory ==
    \E strpath \in TopDirs :
        /\ DoSetWorkingDirectory(strpath)
        /\ last' = [NoLast("setwd") EXCEPT !.req.path = strpath]
        /\ UNCHANGED <<tree, fTopElement, fCache, loopVars>>

TopProcessRequest ==
    /\ fTopElement # NoElem
    /\ \E req \in TopRequests : DoProcessRequest(req)
    /\ UNCHANGED <<tree, fTopElement, fWorkingPath, loopVars>>

TopGetElement ==
    /\ fTopElement # NoElem
    /\ \E str \in TopPaths : DoGetElement(str)
    /\ UNCHANGED <<tree, fTopElement, fWorkingPath, memo, loopVars>>

NextTop ==
    TopSetTopElement \/ TopSetWorkingDirectory \/ TopProcessRequest \/ TopGetElement

SpecTop == Init /\ [][NextTop]_vars

----------------------------------------------------------------------------
(* Notions the properties are stated with *)

\* the last operation was a call of ProcessBrowserRequest
IsRequest == last.op = "request"

\* ... that returned true
Succeeded == IsRequest /\ last.ret = "true"

\* ... that got past the sort block (it returned true or left by the regex error)
Ordered == IsRequest /\ last.ret \in {"true", "throw"}

\* slot p of the snapshot passes the hidden and regex filters of request req
Passes(items, p, req) ==
    /\ req.hidden \/ ~items[p].hidden
    /\ req.regex = "" \/ items[p].folder \/ items[p].name \in RegexLang(req.regex)

\* the slots of the ordered sequence that pass the filters, in order
Visible(items, sorted, req) == SelectSeq(sorted, LAMBDA p : Passes(items, p, req))

\* the elements of a sequence
Range(s) == {s[i] : i \in 1..Len(s)}

\* the names of the items in the given slots
Names(items, ptrs) == [i \in 1..Len(ptrs) |-> items[ptrs[i]].name]

\* paths the cache is probed with: every path of up to three of the names
\* src, lib, a.txt, and b.txt at the top and under src
ProbePaths ==
    SeqUpTo({<<"src">>, <<"lib">>, <<"a.txt">>}, 3)
    \cup { <<<<"b.txt">>>>, <<<<"src">>, <<"b.txt">>>> }

\* those of up to two names
ShortProbePaths == {path \in ProbePaths : Len(path) <= 2}

----------------------------------------------------------------------------
(* C1: with the top element fixed and the tree unchanged, resolving any     *)
(* path with the cache as it stands gives the same element, or the same     *)
(* failure, as resolving it with an empty cache.                            *)
C1_CacheNeverChangesOutcome ==
    fTopElement # NoElem =>
        \A path \in ProbePaths :
            GetSubElement(tree, fTopElement, fCache, path).elem
                = GetSubElement(tree, fTopElement, EmptyCache, path).elem

\* src/a.txt was resolved while src and src/lib were cached: both entries agree
\* with the path on one component, and the walk went on from src
C1_Witness ==
    /\ last.resolved
    /\ last.path = << <<"src">>, <<"a.txt">> >>
    /\ last.elem = 6
    /\ << <<"src">>, <<"lib">> >> \in DOMAIN fCache
    /\ fCache[<< <<"src">>, <<"a.txt">> >>] = 6

----------------------------------------------------------------------------
(* A step from a successful request to a request for the same decomposed    *)
(* path with the same sort key and reverse flag                             *)
FollowUp ==
    /\ last.op = "request" /\ last.ret = "true"
    /\ last'.op = "request"
    /\ last'.path = last.path
    /\ last'.req.sort = last.req.sort
    /\ last'.req.reverse = last.req.reverse

(* C2 as stated: such a follow-up request never resolves, never lists and   *)
(* never sorts again: cache, raw snapshot and sorted sequence are reused.   *)
C2_AsStated ==
    [][FollowUp =>
          /\ ~last'.resolved /\ fCache' = fCache
          /\ ~last'.listed /\ fLastItems' = fLastItems
          /\ ~last'.sorted /\ fLastSortedItems' = fLastSortedItems]_vars

(* C2: a follow-up request never resolves again (no GetSubElement call, the *)
(* cache unchanged); and when the raw snapshot is not empty it is reused as *)
(* is, and the sorted sequence is not rebuilt.  When the snapshot is empty  *)
(* (an element without children) the children are enumerated again, and the *)
(* sort block runs again iff the sort key is not empty.                     *)
C2_FollowUpReusesMemo ==
    [][FollowUp =>
          /\ ~last'.resolved /\ fCache' = fCache
          /\ fLastPath' = fLastPath /\ fLastElement' = fLastElement
          /\ fLastItems' = fLastItems
          /\ fLastItems # <<>> =>
                /\ ~last'.listed
                /\ ~last'.sorted /\ fLastSortedItems' = fLastSortedItems
          /\ fLastItems = <<>> =>
                /\ last'.listed
                /\ last'.sorted <=> (last'.req.sort # "")]_vars

\* a request for the second window of src was served from the memo
C2_Witness ==
    /\ Succeeded
    /\ ~last.resolved /\ ~last.listed /\ ~last.sorted
    /\ last.req.first = 1
    /\ fLastPath = << <<"src">> >>
    /\ Len(fLastItems) = 3
    /\ last.reply.nodes # <<>>

----------------------------------------------------------------------------
(* C3: for offset >= 0 and limit >= 0, the item of visible index id is in   *)
(* the page iff id >= offset and (limit = 0 or id < offset + limit), the    *)
(* page keeps the visible order, and its length is                          *)
(* min(limit, max(0, total - offset)), or max(0, total - offset) when       *)
(* limit = 0.  (offset + limit is taken in the integers.)                   *)
C3_PageWindow ==
    (Succeeded /\ last.req.first >= 0 /\ last.req.number >= 0) =>
        LET vis == Visible(fLastItems, fLastSortedItems, last.req)
            offset == last.req.first
            limit == last.req.number
            page == last.reply.nodes
            rest == Max(0, Len(vis) - offset)
        IN  /\ \A id \in 0..(Len(vis) - 1) :
                  (vis[id + 1] \in Range(page))
                      <=> (id >= offset /\ (limit = 0 \/ id < offset + limit))
            /\ page = SubSeq(vis, offset + 1, offset + Len(page))
            /\ Len(page) = IF limit > 0 THEN Min(limit, rest) ELSE rest

\* four visible items, offset 1, limit 2: the page is the second and third
C3_Witness ==
    /\ Succeeded
    /\ last.req.first = 1 /\ last.req.number = 2
    /\ last.reply.nchilds = 4
    /\ Len(last.reply.nodes) = 2

----------------------------------------------------------------------------
\* the children of the spec's scenario: .git (hidden folder), src, a.txt, b.txt
ScenarioItems ==
    << [name |-> <<".git">>, folder |-> TRUE, hidden |-> TRUE],
       [name |-> <<"src">>, folder |-> TRUE, hidden |-> FALSE],
       [name |-> <<"a.txt">>, folder |-> FALSE, hidden |-> FALSE],
       [name |-> <<"b.txt">>, folder |-> FALSE, hidden |-> FALSE] >>

(* C4: in a successful reply no hidden item appears when the request's      *)
(* hidden flag is false, whatever the regex and sort settings; a folder is  *)
(* never dropped for the regex: every folder that passes the hidden filter  *)
(* is counted, and is in the page when the window is unbounded.  For the    *)
(* scenario with regex a\.txt the reply is [src, a.txt], total 2.           *)
C4_HiddenAndFolders ==
    Succeeded =>
        LET req == last.req
            page == last.reply.nodes
            folders == {p \in 1..Len(fLastItems) :
                          fLastItems[p].folder /\ (req.hidden \/ ~fLastItems[p].hidden)}
        IN  /\ ~req.hidden => \A p \in Range(page) : ~fLastItems[p].hidden
            /\ last.reply.nchilds >= Cardinality(folders)
            /\ (req.first = 0 /\ req.number = 0) => folders \subseteq Range(page)
            /\ (/\ fLastItems = ScenarioItems /\ req.regex = "a\\.txt" /\ ~req.hidden
                /\ req.sort = "" /\ ~req.reverse /\ req.first = 0 /\ req.number = 0)
                  => /\ Names(fLastItems, page) = << <<"src">>, <<"a.txt">> >>
                     /\ last.reply.nchilds = 2

\* the scenario itself
C4_Witness ==
    /\ Succeeded
    /\ fLastItems = ScenarioItems
    /\ last.req.regex = "a\\.txt" /\ ~last.req.hidden
    /\ last.req.sort = "" /\ ~last.req.reverse
    /\ last.req.first = 0 /\ last.req.number = 0
    /\ Names(fLastItems, last.reply.nodes) = << <<"src">>, <<"a.txt">> >>

----------------------------------------------------------------------------
(* C5: with an empty sort key and reverse = false the ordered sequence is a *)
(* stable partition of the raw snapshot: every slot once, folders before    *)
(* the others, and each group in snapshot order.                            *)
C5_FoldersFirstStable ==
    (Ordered /\ last.req.sort = "" /\ ~last.req.reverse) =>
        LET so == fLastSortedItems
            isF(p) == fLastItems[p].folder
        IN  /\ Len(so) = Len(fLastItems)
            /\ Range(so) = 1..Len(fLastItems)
            /\ \A i, j \in 1..Len(so) :
                  i < j => /\ isF(so[j]) => isF(so[i])
                           /\ isF(so[i]) = isF(so[j]) => so[i] < so[j]

\* a snapshot file, folder, file, folder: the folders moved up, in order
C5_Witness ==
    /\ Ordered /\ last.req.sort = "" /\ ~last.req.reverse
    /\ Len(fLastItems) = 4
    /\ fLastSortedItems = <<2, 4, 1, 3>>

----------------------------------------------------------------------------
(* C6 as stated: with sort key "unsorted" the ordered sequence is the raw   *)
(* snapshot's order, whatever the reverse flag.                             *)
C6_AsStated ==
    (Ordered /\ last.req.sort = "unsorted") =>
        fLastSortedItems = [i \in 1..Len(fLastItems) |-> i]

(* C6: with sort key "unsorted" the ordered sequence is the raw snapshot's  *)
(* order when reverse is false, and exactly that order reversed when        *)
(* reverse is true (no folder grouping, no comparator sort).                *)
C6_UnsortedKeepsOrder ==
    (Ordered /\ last.req.sort = "unsorted") =>
        LET n == Len(fLastItems)
        IN  fLastSortedItems =
                IF last.req.reverse THEN [i \in 1..n |-> n + 1 - i] ELSE [i \in 1..n |-> i]

\* a snapshot neither grouped nor sorted by name, reversed and nothing else
C6_Witness ==
    /\ Ordered /\ last.req.sort = "unsorted" /\ last.req.reverse
    /\ Names(fLastItems, [i \in 1..Len(fLastItems) |-> i])
          = << <<"b.txt">>, <<"src">>, <<"a.txt">> >>
    /\ Names(fLastItems, fLastSortedItems) = << <<"a.txt">>, <<"src">>, <<"b.txt">> >>

----------------------------------------------------------------------------
(* C7: the reported total is the number of the children in the snapshot     *)
(* that pass the hidden and regex filters: it depends on the snapshot and   *)
(* on the two filters alone, not on offset or limit.                        *)
C7_TotalIsVisibleCount ==
    Succeeded =>
        LET kids == tree[fLastElement].kids
            passing == {i \in 1..Len(fLastItems) :
                          /\ last.req.hidden \/ ~tree[kids[i]].hidden
                          /\ \/ last.req.regex = ""
                             \/ tree[kids[i]].folder
                             \/ tree[kids[i]].name \in RegexLang(last.req.regex)}
        IN  last.reply.nchilds = Cardinality(passing)

\* a page of one item out of three visible ones
C7_Witness ==
    /\ Succeeded
    /\ last.req.first = 2 /\ last.req.number = 1
    /\ Len(last.reply.nodes) = 1
    /\ last.reply.nchilds = 3
    /\ Len(fLastItems) = 4

----------------------------------------------------------------------------
(* C8: the snapshot never holds more than cap = 10 000 items; listing a     *)
(* container of cap + 1 children ends with fLastAllChilds false and the     *)
(* first cap children in the snapshot.                                      *)
C8_CapAsStated ==
    /\ listSize <= kChildsLimit
    /\ (listPc = "done" /\ listN = kChildsLimit + 1)
          => (~listAll /\ listSize = kChildsLimit)

\* what the loop does: it stops after the item it adds with id = 10 001, so
\* up to 10 002 children are all taken, and 10 001 of them are called complete
C8_LoopAsWritten ==
    listPc = "done" =>
        /\ listSize = Min(listN, kChildsLimit + 2)
        /\ listAll = (listN < kChildsLimit + 2)

----------------------------------------------------------------------------
(* C9: a request with a malformed regex leaves the memo (last path, last    *)
(* element, raw snapshot, sorted sequence, sort key, reverse flag) and the  *)
(* resolution cache exactly as they were before it; stated for the requests *)
(* that find a listing memoized.                                            *)
C9_BadRegexLeavesState ==
    [][(fLastItems # <<>> /\ last'.op = "request" /\ last'.req.regex = BadRegex)
          => UNCHANGED <<memo, fCache>>]_vars

\* what happens: the regex is compiled after the resolution, listing and sort
\* blocks, so the request fails by std::regex_error only when those went
\* through, and the memo is then the one a successful request leaves
C9_BadRegexThrowsLate ==
    (IsRequest /\ last.ret = "throw") =>
        /\ last.req.regex = BadRegex
        /\ fLastPath = last.path /\ fLastElement # NoElem
        /\ fLastSortMethod = last.req.sort /\ fLastSortReverse = last.req.reverse
        /\ Len(fLastSortedItems) = Len(fLastItems)
        /\ last.reply = NewReply(last.req)

----------------------------------------------------------------------------
(* C10: a request whose path cannot be resolved and a request whose element *)
(* gives no child iterator end alike: ProcessBrowserRequest returns false   *)
(* and the reply's nodes, first and nchilds are as the caller passed them.  *)
C10_FailuresAlike ==
    IsRequest =>
        LET elem == Follow(tree, fTopElement, last.path)
            untouched == /\ last.reply.nodes = <<>>
                         /\ last.reply.first = 0
                         /\ last.reply.nchilds = 0
        IN  /\ elem = NoElem => (last.ret = "false" /\ untouched)
            /\ (elem # NoElem /\ ~HasChildsIter(tree, elem))
                  => (last.ret = "false" /\ untouched)
            /\ last.ret = "false" => (untouched /\ (elem = NoElem \/ ~HasChildsIter(tree, elem)))

\* src/a.txt was found but lists no children; the request asked for offset 1
C10_Witness ==
    /\ IsRequest /\ last.ret = "false"
    /\ last.path = << <<"src">>, <<"a.txt">> >>
    /\ Follow(tree, fTopElement, last.path) = 6
    /\ last.req.first = 1
    /\ last.reply.first = 0

----------------------------------------------------------------------------
(* C11: a request with a negative offset or a negative limit gets an empty  *)
(* page, whatever the snapshot and the other parameter.                     *)
C11_NegativeGivesEmptyPage ==
    (Succeeded /\ (last.req.first < 0 \/ last.req.number < 0)) =>
        last.reply.nodes = <<>>

\* what line 187 does with them: a negative limit gives an empty page; a
\* negative offset with limit 0 gives every visible item, and with a limit
\* n > 0 the first offset + n visible items (none when offset + n <= 0)
C11_WindowAsWritten ==
    (Succeeded /\ (last.req.first < 0 \/ last.req.number < 0)) =>
        LET vis == Visible(fLastItems, fLastSortedItems, last.req)
            offset == last.req.first
            limit == last.req.number
        IN  last.reply.nodes =
                IF limit < 0 THEN <<>>
                ELSE IF limit = 0 THEN vis
                ELSE SubSeq(vis, 1, Min(Len(vis), Max(0, offset + limit)))

----------------------------------------------------------------------------
\* the positions of s where a maximal separator-free run of characters starts
SegmentStarts(s) == {i \in 1..Len(s) : s[i] # Slash /\ (i = 1 \/ s[i - 1] = Slash)}

\* the last position of the run that starts at i
SegmentEnd(s, i) ==
    CHOOSE j \in i..Len(s) :
        /\ \A k \in i..j : s[k] # Slash
        /\ j = Len(s) \/ s[j + 1] = Slash

\* the maximal separator-free non-empty segments of s, in order
Segments(s) ==
    LET st == SegmentStarts(s)
        nth(k) == CHOOSE i \in st : Cardinality({j \in st : j < i}) = k - 1
    IN  [k \in 1..Cardinality(st) |-> SubSeq(s, nth(k), SegmentEnd(s, nth(k)))]

----------------------------------------------------------------------------
(* C13: on the unchanged tree and with the top element in place, what       *)
(* GetSubElement gives for a path is the same before and after any call     *)
(* that resolves (GetElement or ProcessBrowserRequest, of this or of any    *)
(* other path): so two calls with the same path, with any resolutions in    *)
(* between, give equal elements or fail both.  (A call that leaves the      *)
(* cache as it was leaves every outcome as it was.)                         *)
C13_ResolveIdempotent ==
    [][(fCache' # fCache /\ fTopElement # NoElem /\ fTopElement' = fTopElement) =>
          \A path \in ShortProbePaths :
              GetSubElement(tree, fTopElement, fCache', path).elem
                  = GetSubElement(tree, fTopElement, fCache, path).elem]_vars

\* a request resolved src, a.txt was resolved some time, and GetElement has
\* now resolved src again: to the element the request memoized
C13_Witness ==
    /\ last.op = "getelement"
    /\ last.path = << <<"src">> >>
    /\ fLastPath = << <<"src">> >>
    /\ last.elem = fLastElement
    /\ last.elem # NoElem
    /\ << <<"a.txt">> >> \in DOMAIN fCache

----------------------------------------------------------------------------
\* q is p or a leading part of p
IsPrefix(q, p) == Len(q) <= Len(p) /\ q = SubSeq(p, 1, Len(q))

\* the memo holds nothing: the state Idle
MemoIdle ==
    /\ fLastPath = <<>> /\ fLastElement = NoElem
    /\ fLastItems = <<>> /\ fLastSortedItems = <<>>
    /\ fLastSortMethod = ""

(* C14 as stated: a request that has to resolve resets the memo to Idle     *)
(* before the Resolver is tried, so when its path does not resolve the memo *)
(* is Idle afterwards and nothing else has changed.                         *)
C14_AsStated ==
    [][(/\ last'.op = "request" /\ last'.resolved
        /\ Follow(tree, fTopElement, last'.path) = NoElem)
          => (MemoIdle' /\ fCache' = fCache)]_vars

(* C14: the Resolver is tried first and the memo is reset only when it has  *)
(* succeeded.  After a request whose resolution fails the memo is what it   *)
(* was before the request; the one state change is in the cache, which may  *)
(* have gained entries for leading parts of the path the Resolver walked    *)
(* (entries it had are kept).  After a request whose resolution succeeded   *)
(* the memo was reset and holds the request's path and element.             *)
C14_FailedResolveKeepsMemo ==
    [][(last'.op = "request" /\ last'.resolved) =>
          IF Follow(tree, fTopElement, last'.path) = NoElem
          THEN /\ last'.ret = "false"
               /\ UNCHANGED memo
               /\ \A k \in DOMAIN fCache : k \in DOMAIN fCache' /\ fCache'[k] = fCache[k]
               /\ \A k \in (DOMAIN fCache') \ (DOMAIN fCache) :
                     IsPrefix(k, last'.path) /\ k # last'.path
          ELSE /\ fLastPath' = last'.path
               /\ fLastElement' = Follow(tree, fTopElement, last'.path)
               /\ ~last'.listed => (fLastItems' = <<>> /\ fLastSortedItems' = <<>>
                                     /\ fLastSortMethod' = "" /\ ~fLastAllChilds')]_vars

\* with the working path src, b.txt did not resolve: the memo still holds the
\* listing of src, and the cache holds src, which the Resolver passed
C14_Witness ==
    /\ IsRequest /\ last.resolved /\ last.ret = "false"
    /\ last.path = << <<"src">>, <<"b.txt">> >>
    /\ Follow(tree, fTopElement, last.path) = NoElem
    /\ fLastPath = << <<"src">> >> /\ fLastElement = 2 /\ Len(fLastItems) = 3
    /\ fLastSortedItems # <<>>
    /\ << <<"src">> >> \in DOMAIN fCache

----------------------------------------------------------------------------
\* every entry of the cache holds the node its key denotes from the top element
CacheSound ==
    \A key \in DOMAIN fCache :
        fTopElement # NoElem /\ fCache[key] = Follow(tree, fTopElement, key)

(* C15: in every reachable state, after any sequence of SetTopElement,      *)
(* SetWorkingDirectory, GetElement and ProcessRequest calls, every cache    *)
(* entry (key, element) holds the node reached from the current top element *)
(* by following exactly the components of key by child-name lookup.         *)
C15_CacheEntriesReachable == CacheSound

\* what the code keeps: SetTopElement leaves fCache as it is, so the entries
\* are those of the walks made so far, each from the top element of its time;
\* as long as the top element is not replaced by another one, CacheSound holds
C15_SoundUntilTopReplaced ==
    [][(CacheSound /\ (fTopElement' = fTopElement \/ fTopElement = NoElem)) => CacheSound']_vars

----------------------------------------------------------------------------
\* the greatest match length of path with a key of the cache (0: no entry)
BestMatch(path, cache) ==
    LET lens == {ComparePaths(path, key) : key \in DOMAIN cache} \cup {0}
    IN  CHOOSE c \in lens : \A d \in lens : d <= c

\* the entries of the cache that tie at the greatest match length c > 0
TiedKeys(path, cache, c) ==
    {key \in DOMAIN cache : c > 0 /\ ComparePaths(path, key) = c}

(* C16 as stated: in the cache scan any entry of maximal match length may   *)
(* be the starting cursor: whichever tied entry is picked, the walk ends at *)
(* the element the path denotes from the top element.  (Stated for the      *)
(* states where every entry holds the node of its key.)                     *)
C16_AnyTieBreak ==
    CacheSound =>
        \A path \in ProbePaths :
            \A key \in TiedKeys(path, fCache, BestMatch(path, fCache)) :
                WalkPath(tree, path, BestMatch(path, fCache), fCache[key], fCache).elem
                    = Follow(tree, fTopElement, path)

\* the cursor best is the top element, or the entry keyed by the leading
\* part of path that matched, and GetSubElement walks the rest from there
StartsAtPrefix(path, best) ==
    /\ best.pos = BestMatch(path, fCache)
    /\ best.pos = 0 => best.elem = fTopElement
    /\ best.pos > 0 =>
          /\ Resize(path, best.pos) \in DOMAIN fCache
          /\ best.elem = fCache[Resize(path, best.pos)]
    /\ GetSubElement(tree, fTopElement, fCache, path).elem
          = Follow(tree, best.elem, SubSeq(path, best.pos + 1, Len(path)))

(* C16: the choice among the entries of maximal match length bears on the   *)
(* result.  The scan takes the first of them in the cache's key order,      *)
(* which is the entry whose key is exactly the leading part of the path     *)
(* that matched, and the walk goes on from the element stored under that    *)
(* key; where every entry holds the node of its key, the result is the      *)
(* element the path denotes from the top element.                           *)
C16_FirstMaximalIsPrefix ==
    fTopElement # NoElem =>
        \A path \in ProbePaths \ {<<>>} :
            /\ StartsAtPrefix(path, ScanCache(path, fCache, CacheKeys(fCache),
                                              [pos |-> 0, elem |-> fTopElement]))
            /\ CacheSound => GetSubElement(tree, fTopElement, fCache, path).elem
                                = Follow(tree, fTopElement, path)

\* GetElement resolved src/a.txt to the file of src while src/lib was cached:
\* src and src/lib tie at match length 1, and src/lib holds another folder
C16_Witness ==
    /\ CacheSound
    /\ last.op = "getelement"
    /\ last.path = << <<"src">>, <<"a.txt">> >>
    /\ last.elem = 6
    /\ << <<"src">>, <<"lib">> >> \in DOMAIN fCache
    /\ fCache[<< <<"src">>, <<"lib">> >>] = 5

----------------------------------------------------------------------------
(* C17: no call removes a cache entry or changes the element stored under a *)
(* key the cache already has; so a resolution that fails at any step leaves *)
(* every entry that was there, with its element.                            *)
C17_CacheEntriesKept ==
    [][\A key \in DOMAIN fCache :
          key \in DOMAIN fCache' /\ fCache'[key] = fCache[key]]_vars

\* src/b.txt did not resolve; src and src/lib, cached before, are as they were
C17_Witness ==
    /\ last.resolved
    /\ last.path = << <<"src">>, <<"b.txt">> >>
    /\ last.elem = NoElem /\ last.ret \in {"none", "false"}
    /\ << <<"src">>, <<"lib">> >> \in DOMAIN fCache
    /\ fCache[<< <<"src">> >>] = 2
    /\ fCache[<< <<"src">>, <<"lib">> >>] = 5

----------------------------------------------------------------------------
(* C18: after every successful ProcessBrowserRequest the memo is Paged for  *)
(* that request: the last path is the working path followed by the          *)
(* components of the request path, the last element is the element at that  *)
(* path, the memoized sort key and reverse flag are the request's, and the  *)
(* sorted sequence is as long as the raw snapshot.                          *)
C18_PagedAfterSuccess ==
    Succeeded =>
        /\ fLastPath = fWorkingPath \o Segments(last.req.path)
        /\ fLastElement = Follow(tree, fTopElement, fLastPath)
        /\ fLastSortMethod = last.req.sort
        /\ fLastSortReverse = last.req.reverse
        /\ Len(fLastSortedItems) = Len(fLastItems)

\* the same, with the last element being what GetSubElement gave: the
\* element at that path unless the cache held an entry of another top element
C18_PagedForResolvedElement ==
    Succeeded =>
        /\ fLastPath = fWorkingPath \o Segments(last.req.path)
        /\ fLastElement # NoElem
        /\ CacheSound => fLastElement = Follow(tree, fTopElement, fLastPath)
        /\ fLastSortMethod = last.req.sort
        /\ fLastSortReverse = last.req.reverse
        /\ Len(fLastSortedItems) = Len(fLastItems)

----------------------------------------------------------------------------
\* a step from a request that got past the sort block to a request for the
\* same path with the same sort key, "" or "unsorted", and the other reverse flag
ReverseOnly ==
    /\ Ordered
    /\ last'.op = "request" /\ last'.ret \in {"true", "throw"}
    /\ last'.path = last.path
    /\ last'.req.sort = last.req.sort
    /\ last.req.sort \in {"", "unsorted"}
    /\ last'.req.reverse # last.req.reverse

\* ptrs holds every slot of items once, the folders first, each group in
\* snapshot order
IsFoldersFirst(items, ptrs) ==
    /\ Len(ptrs) = Len(items)
    /\ Range(ptrs) = 1..Len(items)
    /\ \A i, j \in 1..Len(ptrs) :
          i < j => /\ items[ptrs[j]].folder => items[ptrs[i]].folder
                   /\ items[ptrs[i]].folder = items[ptrs[j]].folder => ptrs[i] < ptrs[j]

(* C19: reverse is applied after ordering.  With reverse = true the ordered *)
(* sequence for sort key "" is the folders-first order read backwards (all  *)
(* the non-folders before all the folders), and for "unsorted" the snapshot *)
(* order read backwards; and a request that differs from the one before it  *)
(* on the same node in the reverse flag alone rebuilds the sorted sequence, *)
(* to the exact reversal of what it was.                                    *)
C19_ReverseAfterOrdering ==
    /\ [](Ordered /\ last.req.reverse =>
            /\ last.req.sort = "" =>
                  /\ IsFoldersFirst(fLastItems, Reverse(fLastSortedItems))
                  /\ \A i, j \in 1..Len(fLastSortedItems) :
                        (i < j /\ fLastItems[fLastSortedItems[i]].folder)
                            => fLastItems[fLastSortedItems[j]].folder
            /\ last.req.sort = "unsorted" =>
                  Reverse(fLastSortedItems) = [i \in 1..Len(fLastItems) |-> i])
    /\ [][ReverseOnly =>
            /\ last'.sorted
            /\ fLastItems' = fLastItems
            /\ fLastSortedItems' = Reverse(fLastSortedItems)]_vars

\* src was listed and ordered before; a request with another sort key or
\* reverse flag has rebuilt the order: a.txt, lib, .h give .h, a.txt, lib
C19_Witness ==
    /\ Ordered /\ last.req.sort = "" /\ last.req.reverse
    /\ ~last.resolved /\ ~last.listed /\ last.sorted
    /\ fLastPath = << <<"src">> >>
    /\ fLastSortedItems = <<3, 1, 2>>

----------------------------------------------------------------------------
(* C20: between operations the sorted sequence is empty or a permutation of *)
(* the items the raw snapshot owns now: every pointer is the slot of an     *)
(* item of fLastItems (none null), and no slot occurs twice.  No pointer is *)
(* left from a discarded snapshot: a sorted sequence that is not empty      *)
(* after a call and was not rebuilt by it is the one from before the call,  *)
(* and the call has neither reset nor rebuilt the snapshot.                 *)
C20_SortedIsPermutation ==
    /\ [](\/ fLastSortedItems = <<>>
          \/ /\ Len(fLastSortedItems) = Len(fLastItems)
             /\ Range(fLastSortedItems) = 1..Len(fLastItems))
    /\ [][(fLastSortedItems' # <<>> /\ ~last'.sorted) =>
            /\ fLastItems' = fLastItems
            /\ fLastSortedItems' = fLastSortedItems
            /\ ~last'.listed
            /\ last'.op \in {"request", "getelement"}
            /\ fLastPath' = fLastPath /\ fLastElement' = fLastElement]_vars

\* a request whose path did not resolve has left the memo of the listing of
\* src, with its three items in order
C20_Witness ==
    /\ IsRequest /\ last.resolved /\ last.ret = "false"
    /\ fLastPath # last.path
    /\ Len(fLastItems) = 3
    /\ Range(fLastSortedItems) = 1..3

====
